---- MODULE Spec2Model ----
(***************************************************************************)
(* AES-128 cipher CLI: the helper utilities of aes_cipher/helper.py and    *)
(* the public encrypt/decrypt entry points of aes_cipher/cipher.py.        *)
(*                                                                         *)
(* bytes are sequences over 0..255, str values are sequences of Unicode    *)
(* code points, bit lists are sequences over {0,1}.  A call either returns *)
(* a value or raises; both outcomes are recorded in an outcome record.     *)
(***************************************************************************)
EXTENDS Integers, Sequences, FiniteSets, TLC

VARIABLES
    op,       \* name of the function called last ("none" before any call)
    arg,      \* the argument(s) of that call
    ret,      \* its outcome: a returned value or a raised exception
    prev,     \* the call made before it: [op, arg, ret]
    gen,      \* the chunk_blocks generator object: state, data, loop index
    yielded   \* the blocks the generator has yielded so far, in order

vars == <<op, arg, ret, prev, gen, yielded>>

----------------------------------------------------------------------------
(* Outcomes of a call *)

Ok(v) == [ok |-> TRUE, val |-> v, exc |-> "", msg |-> ""]

Raise(e, m) == [ok |-> FALSE, val |-> <<>>, exc |-> e, msg |-> m]

NoCall == [op |-> "none", arg |-> <<>>, ret |-> Ok(<<>>)]

NoGen == [state |-> "none", data |-> <<>>, block_size |-> 0, i |-> 0]

----------------------------------------------------------------------------
(* Python sequence primitives *)

Min(a, b) == IF a < b THEN a ELSE b

Max(a, b) == IF a > b THEN a ELSE b

\* s[lo:hi] with non-negative bounds, 0-based, hi exclusive, clamped to len(s)
Slice(s, lo, hi) == SubSeq(s, Min(lo, Len(s)) + 1, Min(hi, Len(s)))

\* s[-n:] for n > 0 (the whole of s when n exceeds its length)
Tail_n(s, n) == SubSeq(s, Max(Len(s) - n, 0) + 1, Len(s))

\* s[:-n] for n > 0 (empty when n exceeds the length)
DropTail_n(s, n) == SubSeq(s, 1, Max(Len(s) - n, 0))

\* [v] * n
Repeat(v, n) == [i \in 1..n |-> v]

----------------------------------------------------------------------------
(* Program constants *)

BlockSize == 16

KeyBytes == 16

KeyHexChars == 32

----------------------------------------------------------------------------
(* PKCS#7 padding *)

pkcs7_pad_skip_full(data, block_size) ==
    IF block_size <= 0 \/ block_size > 255
    THEN Raise("ValueError", "block_size must be in range 1..255")
    ELSE LET pad_len == (block_size - (Len(data) % block_size)) % block_size
         IN  Ok(data \o Repeat(pad_len, pad_len))

pkcs7_pad_short(data, block_size) ==
    IF block_size <= 0 \/ block_size > 255
    THEN Raise("ValueError", "block_size must be in range 1..255")
    ELSE LET pad_len == block_size - (Len(data) % block_size)
         IN  Ok(data \o Repeat(pad_len, pad_len - 1))

pkcs7_pad(data, block_size) ==
    IF block_size <= 0 \/ block_size > 255
    THEN Raise("ValueError", "block_size must be in range 1..255")
    ELSE LET pad_len == block_size - (Len(data) % block_size)
         IN  Ok(data \o Repeat(pad_len, pad_len))

pkcs7_unpad_no_zero_check(data, block_size) ==
    IF data = <<>> \/ Len(data) % block_size # 0
    THEN Raise("ValueError", "Invalid padded data length.")
    ELSE LET pad_len == data[Len(data)]
         IN  IF pad_len > block_size
             THEN Raise("ValueError", "Invalid padding byte.")
             ELSE IF pad_len > 0 /\ Tail_n(data, pad_len) # Repeat(pad_len, pad_len)
                  THEN Raise("ValueError", "Invalid padding content.")
                  ELSE Ok(SubSeq(data, 1, Len(data) - pad_len))

pkcs7_unpad_no_content_check(data, block_size) ==
    IF data = <<>> \/ Len(data) % block_size # 0
    THEN Raise("ValueError", "Invalid padded data length.")
    ELSE LET pad_len == data[Len(data)]
         IN  IF pad_len = 0 \/ pad_len > block_size
             THEN Raise("ValueError", "Invalid padding byte.")
             ELSE Ok(DropTail_n(data, pad_len))

\* the index (from the end) of the first byte that differs from pad_len
FirstBadFromEnd(data, pad_len) ==
    CHOOSE k \in 1..pad_len :
        /\ data[Len(data) - k + 1] # pad_len
        /\ \A j \in 1..(k - 1) : data[Len(data) - j + 1] = pad_len

pkcs7_unpad_leaky(data, block_size) ==
    IF data = <<>> \/ Len(data) % block_size # 0
    THEN Raise("ValueError", "Invalid padded data length.")
    ELSE LET pad_len == data[Len(data)]
         IN  IF pad_len = 0 \/ pad_len > block_size
             THEN Raise("ValueError", "Invalid padding byte.")
             ELSE IF Tail_n(data, pad_len) # Repeat(pad_len, pad_len)
                  THEN Raise("ValueError",
                             "Invalid padding content at byte -"
                                 \o ToString(FirstBadFromEnd(data, pad_len)))
                  ELSE Ok(DropTail_n(data, pad_len))

pkcs7_unpad(data, block_size) ==
    IF data = <<>> \/ Len(data) % block_size # 0
    THEN Raise("ValueError", "Invalid padded data length.")
    ELSE LET pad_len == data[Len(data)]
         IN  IF pad_len = 0 \/ pad_len > block_size
             THEN Raise("ValueError", "Invalid padding byte.")
             ELSE IF Tail_n(data, pad_len) # Repeat(pad_len, pad_len)
                  THEN Raise("ValueError", "Invalid padding content.")
                  ELSE Ok(DropTail_n(data, pad_len))

----------------------------------------------------------------------------
(* chunk_blocks: a generator function.  Calling it runs none of its body;  *)
(* each next() runs the body up to the next yield, a raise, or its end.    *)

chunk_blocks(data, block_size) ==
    [state |-> "created", data |-> data, block_size |-> block_size, i |-> 0]

\* the generator after the length check is skipped: a short last block is yielded
chunk_blocks_next_unchecked(g) ==
    LET i == IF g.state = "created" THEN 0 ELSE g.i + g.block_size
    IN  IF i < Len(g.data)
        THEN [gen |-> [g EXCEPT !.state = "suspended", !.i = i],
              out |-> Ok(Slice(g.data, i, i + g.block_size))]
        ELSE [gen |-> [g EXCEPT !.state = "exhausted", !.i = i],
              out |-> Raise("StopIteration", "")]

\* next(g) on a generator that is created or suspended at its yield
chunk_blocks_next(g) ==
    IF g.state = "created" /\ Len(g.data) % g.block_size # 0
    THEN [gen |-> [g EXCEPT !.state = "raised"],
          out |-> Raise("ValueError", "Data length must be a multiple of block size.")]
    ELSE LET i == IF g.state = "created" THEN 0 ELSE g.i + g.block_size
         IN  IF i < Len(g.data)
             THEN [gen |-> [g EXCEPT !.state = "suspended", !.i = i],
                   out |-> Ok(Slice(g.data, i, i + g.block_size))]
             ELSE [gen |-> [g EXCEPT !.state = "exhausted", !.i = i],
                   out |-> Raise("StopIteration", "")]

----------------------------------------------------------------------------
(* Inputs of the padding and block-splitting calls *)

MaxLen == 33

FillStarts == {0, 250}

PadBytes == {0, 1, 2, 15, 16, 17, 255}

\* n bytes: a run of r bytes of value p after a counting pattern that starts at f
Buf(n, f, p, r) ==
    [i \in 1..n |-> IF i > n - r THEN p ELSE (f + i - 1) % 256]

RunLens(p, n) == {r \in {0, 1, p - 1, p, p + 1} : r >= 0 /\ r <= n}

ByteStrings ==
    UNION { UNION { { Buf(n, f, p, r) : r \in RunLens(p, n) } : p \in PadBytes }
            : <<n, f>> \in (0..MaxLen) \X FillStarts }

PlainBuffers == { Buf(n, f, 0, 0) : n \in 0..MaxLen, f \in FillStarts }

----------------------------------------------------------------------------
(* Padding and block splitting: the calls a caller can make *)

Called(o, a, r) ==
    /\ op' = o
    /\ arg' = a
    /\ ret' = r
    /\ prev' = [op |-> op, arg |-> arg, ret |-> ret]

Init ==
    /\ op = "none"
    /\ arg = <<>>
    /\ ret = Ok(<<>>)
    /\ prev = NoCall
    /\ gen = NoGen
    /\ yielded = <<>>

\* pkcs7_pad(data) on fresh data
Pad ==
    \E data \in ByteStrings :
        /\ op = "none"
        /\ Called("pkcs7_pad", data, pkcs7_pad(data, BlockSize))
        /\ UNCHANGED <<gen, yielded>>

\* pkcs7_unpad(data) on a fresh buffer
Unpad ==
    \E data \in ByteStrings :
        /\ op = "none"
        /\ Called("pkcs7_unpad", data, pkcs7_unpad(data, BlockSize))
        /\ UNCHANGED <<gen, yielded>>

\* pkcs7_unpad applied to what pkcs7_pad just returned
UnpadReturned ==
    /\ op = "pkcs7_pad"
    /\ ret.ok
    /\ Called("pkcs7_unpad", ret.val, pkcs7_unpad(ret.val, BlockSize))
    /\ UNCHANGED <<gen, yielded>>

\* pkcs7_pad applied to what pkcs7_unpad just returned
PadReturned ==
    /\ op = "pkcs7_unpad"
    /\ ret.ok
    /\ Called("pkcs7_pad", ret.val, pkcs7_pad(ret.val, BlockSize))
    /\ UNCHANGED <<gen, yielded>>

\* g = chunk_blocks(data): the generator object is created, no block yet
ChunkCall ==
    \E data \in PlainBuffers :
        /\ op = "none"
        /\ gen.state = "none"
        /\ gen' = chunk_blocks(data, BlockSize)
        /\ yielded' = <<>>
        /\ Called("chunk_blocks", data, Ok(<<>>))

\* next(g): one step of the iteration over the generator
ChunkNext ==
    /\ gen.state \in {"created", "suspended"}
    /\ LET step == chunk_blocks_next(gen)
       IN  /\ gen' = step.gen
           /\ yielded' = IF step.out.ok THEN Append(yielded, step.out.val) ELSE yielded
           /\ Called("next", <<>>, step.out)

Next ==
    \/ Pad
    \/ Unpad
    \/ UnpadReturned
    \/ PadReturned
    \/ ChunkCall
    \/ ChunkNext

Spec == Init /\ [][Next]_vars

----------------------------------------------------------------------------
(* Probing pkcs7_unpad twice with malformed buffers *)

MaxProbePad == 4

MaxProbeBlocks == 2

CorruptValues == {0, 255}

\* a correctly padded buffer of k blocks whose padding length is p
Padded(k, p) == Buf(k * BlockSize, 0, p, p)

\* the positions of the padding of b, its last byte excluded
PadPositions(b, p) == (Len(b) - p + 1)..(Len(b) - 1)

\* b with at most two bytes of its padding overwritten
Corrupted(b, p) ==
    { [b EXCEPT ![j1] = v1, ![j2] = v2] :
        <<j1, j2, v1, v2>> \in
            { t \in PadPositions(b, p) \X PadPositions(b, p)
                      \X CorruptValues \X CorruptValues :
                  t[1] <= t[2] /\ (t[1] = t[2] => t[3] = t[4]) } }

ProbeBuffers ==
    UNION { {Padded(k, p)} \cup Corrupted(Padded(k, p), p) :
              <<k, p>> \in (1..MaxProbeBlocks) \X (1..MaxProbePad) }

ProbeFirst ==
    \E data \in ProbeBuffers :
        /\ op = "none"
        /\ Called("pkcs7_unpad", data, pkcs7_unpad(data, BlockSize))
        /\ UNCHANGED <<gen, yielded>>

ProbeSecond ==
    \E data \in ProbeBuffers :
        /\ op = "pkcs7_unpad"
        /\ prev.op = "none"
        /\ Called("pkcs7_unpad", data, pkcs7_unpad(data, BlockSize))
        /\ UNCHANGED <<gen, yielded>>

ProbeNext ==
    \/ ProbeFirst
    \/ ProbeSecond

ProbeSpec == Init /\ [][ProbeNext]_vars

----------------------------------------------------------------------------
(* Properties of padding and block splitting *)

Last(s) == s[Len(s)]

RECURSIVE Flatten(_)
Flatten(ss) == IF ss = <<>> THEN <<>> ELSE Head(ss) \o Flatten(Tail(ss))

\* the last byte of b claims a padding that the bytes before it do not carry
PaddingMismatch(b) ==
    \E k \in 1..Last(b) : k > Len(b) \/ b[Len(b) - k + 1] # Last(b)

\* C2: unpadding what pkcs7_pad returned succeeds and gives back the data
\* that was padded, for every length 0..31 (and every longer one modelled).
PadRoundTrip ==
    /\ op = "pkcs7_pad" => ret.ok
    /\ (op = "pkcs7_unpad" /\ prev.op = "pkcs7_pad")
           => ret.ok /\ ret.val = prev.arg

PadRoundTripWitness ==
    /\ op = "pkcs7_unpad"
    /\ prev.op = "pkcs7_pad"
    /\ Len(prev.arg) = 31
    /\ Last(prev.arg) = 1
    /\ arg = prev.ret.val
    /\ ret = Ok(prev.arg)

\* C3: pkcs7_unpad raises (ValueError, the code's InvalidPadding) and
\* returns nothing when the last byte is 0, exceeds the block size, or the
\* trailing pad_len bytes are not all equal to pad_len.
UnpadRejectsInvalid ==
    (/\ op = "pkcs7_unpad"
     /\ arg # <<>>
     /\ \/ Last(arg) = 0
        \/ Last(arg) > BlockSize
        \/ PaddingMismatch(arg))
        => ~ret.ok /\ ret.exc = "ValueError" /\ ret.val = <<>>

UnpadRejectsInvalidWitness ==
    /\ op = "pkcs7_unpad"
    /\ prev.op = "none"
    /\ Len(arg) = 2 * BlockSize
    /\ Last(arg) = 2
    /\ arg[Len(arg) - 1] # 2
    /\ ~ret.ok

\* C6: iterating chunk_blocks(d, 16) raises before any block is yielded
\* exactly when len(d) is not a multiple of 16; otherwise it yields the
\* len(d)/16 consecutive 16-byte slices of d, whose concatenation is d.
ChunkBlocksSplits ==
    gen.state # "none" =>
        LET d == gen.data
            aligned == Len(d) % BlockSize = 0
        IN  /\ ~aligned => yielded = <<>>
            /\ (~aligned /\ op = "next")
                   => gen.state = "raised" /\ ~ret.ok /\ ret.exc = "ValueError"
            /\ aligned => gen.state # "raised"
            /\ \A k \in 1..Len(yielded) :
                   /\ Len(yielded[k]) = BlockSize
                   /\ yielded[k] = [j \in 1..BlockSize |-> d[BlockSize * (k - 1) + j]]
            /\ gen.state = "suspended" => Len(yielded) * BlockSize = gen.i + BlockSize
            /\ gen.state = "exhausted"
                   => /\ Len(yielded) * BlockSize = Len(d)
                      /\ Flatten(yielded) = d

ChunkBlocksSplitsWitness ==
    /\ gen.state = "exhausted"
    /\ Len(gen.data) = 2 * BlockSize
    /\ Len(yielded) = 2
    /\ yielded[1] # yielded[2]

\* C7: pkcs7_pad(data, 16) is data followed by n bytes of value n with
\* 1 <= n <= 16: data is an unchanged prefix, the result is strictly longer,
\* its length is a multiple of 16, and n = 16 when data is already aligned.
PadShape ==
    op = "pkcs7_pad" =>
        /\ ret.ok
        /\ Len(ret.val) > Len(arg)
        /\ Len(ret.val) % BlockSize = 0
        /\ LET n == Len(ret.val) - Len(arg)
           IN  /\ n \in 1..BlockSize
               /\ \A i \in 1..Len(arg) : ret.val[i] = arg[i]
               /\ \A i \in (Len(arg) + 1)..Len(ret.val) : ret.val[i] = n
               /\ Len(arg) % BlockSize = 0 => n = BlockSize

PadShapeWitness ==
    /\ op = "pkcs7_pad"
    /\ Len(arg) = BlockSize
    /\ Len(ret.val) = 2 * BlockSize
    /\ Last(ret.val) = BlockSize

\* C8: two block-aligned buffers of equal length with the same last byte
\* pad_len in 1..16, both with trailing bytes that are not all pad_len,
\* get the identical outcome from pkcs7_unpad.
UnpadFailuresIndistinguishable ==
    (/\ op = "pkcs7_unpad"
     /\ prev.op = "pkcs7_unpad"
     /\ Len(arg) = Len(prev.arg)
     /\ Len(arg) % BlockSize = 0
     /\ Last(arg) = Last(prev.arg)
     /\ Last(arg) \in 1..BlockSize
     /\ PaddingMismatch(arg)
     /\ PaddingMismatch(prev.arg))
        => ret = prev.ret /\ ~ret.ok

\* the two buffers differ in where and in how many bytes the padding is wrong
UnpadFailuresIndistinguishableWitness ==
    /\ op = "pkcs7_unpad"
    /\ prev.op = "pkcs7_unpad"
    /\ Len(arg) = Len(prev.arg)
    /\ Last(arg) = 4
    /\ Last(prev.arg) = 4
    /\ arg[Len(arg) - 1] = 4
    /\ arg[Len(arg) - 2] # 4
    /\ arg[Len(arg) - 3] # 4
    /\ prev.arg[Len(arg) - 1] # 4
    /\ prev.arg[Len(arg) - 2] = 4
    /\ prev.arg[Len(arg) - 3] = 4
    /\ ret = prev.ret
    /\ ~ret.ok

\* C9: when pkcs7_unpad succeeds its result is a proper prefix of the
\* buffer, 1..16 bytes shorter, and padding that result gives the buffer back.
UnpadInvertsPad ==
    /\ (op = "pkcs7_unpad" /\ ret.ok)
           => /\ Len(arg) - Len(ret.val) \in 1..BlockSize
              /\ \A i \in 1..Len(ret.val) : ret.val[i] = arg[i]
    /\ (op = "pkcs7_pad" /\ prev.op = "pkcs7_unpad")
           => ret = Ok(prev.arg)

UnpadInvertsPadWitness ==
    /\ op = "pkcs7_pad"
    /\ prev.op = "pkcs7_unpad"
    /\ Len(prev.arg) = 2 * BlockSize
    /\ Len(arg) = BlockSize
    /\ ret = Ok(prev.arg)

----------------------------------------------------------------------------
(* str primitives: strip(), bytes.fromhex(), encode("utf-8") *)

\* the code points str.strip() removes (str.isspace())
UnicodeSpace ==
    {9, 10, 11, 12, 13, 28, 29, 30, 31, 32, 133, 160, 5760, 8232, 8233, 8239,
     8287, 12288} \cup (8192..8202)

\* the characters bytes.fromhex() skips between two-digit groups
AsciiSpace == {9, 10, 11, 12, 13, 32}

IsHexDigit(c) == c \in (48..57) \cup (65..70) \cup (97..102)

HexValue(c) ==
    IF c \in 48..57 THEN c - 48
    ELSE IF c \in 65..70 THEN c - 55
    ELSE c - 87

RECURSIVE lstrip(_)
lstrip(s) ==
    IF s # <<>> /\ Head(s) \in UnicodeSpace THEN lstrip(Tail(s)) ELSE s

RECURSIVE rstrip(_)
rstrip(s) ==
    IF s # <<>> /\ s[Len(s)] \in UnicodeSpace
    THEN rstrip(SubSeq(s, 1, Len(s) - 1))
    ELSE s

strip(s) == rstrip(lstrip(s))

\* bytes.fromhex(s): whitespace is skipped before a group, then two hex
\* digits are required; anything else raises ValueError
RECURSIVE fromhex(_)
fromhex(s) ==
    IF s = <<>> THEN Ok(<<>>)
    ELSE IF Head(s) \in AsciiSpace THEN fromhex(Tail(s))
    ELSE IF Len(s) < 2 \/ ~IsHexDigit(s[1]) \/ ~IsHexDigit(s[2])
         THEN Raise("ValueError", "non-hexadecimal number found in fromhex() arg")
         ELSE LET rest == fromhex(SubSeq(s, 3, Len(s)))
              IN  IF rest.ok
                  THEN Ok(<<16 * HexValue(s[1]) + HexValue(s[2])>> \o rest.val)
                  ELSE rest

IsSurrogate(c) == c \in 55296..57343

\* the UTF-8 encoding of one code point
EncodeChar(c) ==
    IF c < 128 THEN <<c>>
    ELSE IF c < 2048 THEN <<192 + (c \div 64), 128 + (c % 64)>>
    ELSE IF c < 65536
         THEN <<224 + (c \div 4096), 128 + ((c \div 64) % 64), 128 + (c % 64)>>
         ELSE <<240 + (c \div 262144), 128 + ((c \div 4096) % 64),
                128 + ((c \div 64) % 64), 128 + (c % 64)>>

RECURSIVE EncodeAll(_)
EncodeAll(text) ==
    IF text = <<>> THEN <<>> ELSE EncodeChar(Head(text)) \o EncodeAll(Tail(text))

\* text.encode("utf-8"), strict: a lone surrogate cannot be encoded
utf8_to_bytes(text) ==
    IF \E i \in 1..Len(text) : IsSurrogate(text[i])
    THEN Raise("UnicodeEncodeError", "surrogates not allowed")
    ELSE Ok(EncodeAll(text))

\* UnicodeEncodeError is a subclass of ValueError
IsValueError(e) == e \in {"ValueError", "UnicodeEncodeError"}

----------------------------------------------------------------------------
(* Key and IV normalization *)

normalize_aes_key(key_str) ==
    LET stripped == strip(key_str)
        hex == IF Len(stripped) = KeyHexChars
               THEN fromhex(stripped)
               ELSE Raise("", "")
        key_bytes == IF hex.ok THEN hex ELSE utf8_to_bytes(key_str)
    IN  IF ~key_bytes.ok THEN key_bytes
        ELSE IF Len(key_bytes.val) # KeyBytes
             THEN Raise("ValueError",
                        "AES-128 key must be exactly 16 bytes (32 hex or 16 chars).")
             ELSE Ok(key_bytes.val)

\* the fallback encodes the stripped text instead of the text as given
normalize_iv_encodes_stripped(iv_str, size) ==
    LET stripped == strip(iv_str)
        hex == IF Len(stripped) = 2 * size
               THEN fromhex(stripped)
               ELSE Raise("", "")
        iv_bytes == IF hex.ok THEN hex ELSE utf8_to_bytes(stripped)
    IN  IF ~iv_bytes.ok THEN iv_bytes
        ELSE IF Len(iv_bytes.val) # size
             THEN Raise("ValueError",
                        "IV must be exactly " \o ToString(size) \o " bytes.")
             ELSE Ok(iv_bytes.val)

normalize_iv(iv_str, size) ==
    LET stripped == strip(iv_str)
        hex == IF Len(stripped) = 2 * size
               THEN fromhex(stripped)
               ELSE Raise("", "")
        iv_bytes == IF hex.ok THEN hex ELSE utf8_to_bytes(iv_str)
    IN  IF ~iv_bytes.ok THEN iv_bytes
        ELSE IF Len(iv_bytes.val) # size
             THEN Raise("ValueError",
                        "IV must be exactly " \o ToString(size) \o " bytes.")
             ELSE Ok(iv_bytes.val)

IvDefaultSize == 16

----------------------------------------------------------------------------
(* Inputs of the normalization calls *)

MaxBody == 33

BodyChars == {97, 103, 233}          \* a g e-acute

OddChars == {32, 55, 70, 233, 56448} \* space 7 F e-acute lone-surrogate

LeadWraps == {<<>>, <<32>>}

TrailWraps == {<<>>, <<160>>}

IvSizes == {0, 1, 8}

\* n copies of c, the q-th replaced by c2 (q = 0: none replaced)
Body(n, c, q, c2) == [i \in 1..n |-> IF i = q THEN c2 ELSE c]

OddPositions(n) == {q \in {0, 1, 2, n} : q <= n}

Bodies ==
    UNION { UNION { { Body(n, c, q, c2) : q \in OddPositions(n) } : c2 \in OddChars }
            : <<n, c>> \in (0..MaxBody) \X BodyChars }

KeyStrings == { l \o b \o t : l \in LeadWraps, b \in Bodies, t \in TrailWraps }

NormalizeKey ==
    \E s \in KeyStrings :
        /\ op = "none"
        /\ Called("normalize_aes_key", s, normalize_aes_key(s))
        /\ UNCHANGED <<gen, yielded>>

\* normalize_iv(s) with the default size, on the string just given as key
NormalizeIvSame ==
    /\ op = "normalize_aes_key"
    /\ Called("normalize_iv", [iv_str |-> arg, size |-> IvDefaultSize],
              normalize_iv(arg, IvDefaultSize))
    /\ UNCHANGED <<gen, yielded>>

NormalizeIv ==
    \E s \in KeyStrings, size \in IvSizes :
        /\ op = "none"
        /\ Called("normalize_iv", [iv_str |-> s, size |-> size], normalize_iv(s, size))
        /\ UNCHANGED <<gen, yielded>>

NormNext ==
    \/ NormalizeKey
    \/ NormalizeIvSame
    \/ NormalizeIv

NormSpec == Init /\ [][NormNext]_vars

----------------------------------------------------------------------------
(* Byte/bit conversion *)

Pow2(i) == 2 ^ i

\* (byte >> i) & 1 for i = 0..7, least significant bit first
ByteBitsLsbFirst(byte) == [j \in 1..8 |-> (byte \div Pow2(j - 1)) % 2]

\* (byte >> i) & 1 appended for i = 7, 6, ..., 0
ByteBits(byte) == [j \in 1..8 |-> (byte \div Pow2(8 - j)) % 2]

RECURSIVE bytes_to_bits(_)
bytes_to_bits(data) ==
    IF data = <<>> THEN <<>> ELSE ByteBits(Head(data)) \o bytes_to_bits(Tail(data))

\* byte = (byte << 1) | (b & 1) over the bits of one group, starting from acc
RECURSIVE ShiftIn(_, _)
ShiftIn(bits, acc) ==
    IF bits = <<>> THEN acc ELSE ShiftIn(Tail(bits), 2 * acc + (Head(bits) % 2))

bits_to_bytes(bits) ==
    IF Len(bits) % 8 # 0
    THEN Raise("ValueError", "Number of bits must be a multiple of 8.")
    ELSE Ok([k \in 1..(Len(bits) \div 8) |-> ShiftIn(Slice(bits, 8 * (k - 1), 8 * k), 0)])

MaxBytes == 2

MaxBits == 9

ByteSamples == {0, 1, 91, 128, 170, 255}

ByteInputs == UNION { [1..n -> ByteSamples] : n \in 0..MaxBytes }

BitLists == UNION { [1..n -> {0, 1}] : n \in 0..MaxBits }

BytesToBits ==
    \E data \in ByteInputs :
        /\ op = "none"
        /\ Called("bytes_to_bits", data, Ok(bytes_to_bits(data)))
        /\ UNCHANGED <<gen, yielded>>

BitsToBytes ==
    \E bits \in BitLists :
        /\ op = "none"
        /\ Called("bits_to_bytes", bits, bits_to_bytes(bits))
        /\ UNCHANGED <<gen, yielded>>

\* bits_to_bytes applied to what bytes_to_bits just returned
BitsToBytesReturned ==
    /\ op = "bytes_to_bits"
    /\ Called("bits_to_bytes", ret.val, bits_to_bytes(ret.val))
    /\ UNCHANGED <<gen, yielded>>

BitsNext ==
    \/ BytesToBits
    \/ BitsToBytes
    \/ BitsToBytesReturned

BitsSpec == Init /\ [][BitsNext]_vars

----------------------------------------------------------------------------
(* The public API of cipher.py *)

encrypt(plaintext, key, mode, iv) ==
    Raise("NotImplementedError", "AES-128 encrypt not implemented yet.")

decrypt(ciphertext, key, mode, iv) ==
    Raise("NotImplementedError", "AES-128 decrypt not implemented yet.")

\* "HELLO WORLD"
HelloWorld == <<72, 69, 76, 76, 79, 32, 87, 79, 82, 76, 68>>

\* "0123456789abcdef"
Digits16 == <<48, 49, 50, 51, 52, 53, 54, 55, 56, 57, 97, 98, 99, 100, 101, 102>>

\* "0123456789abcdef0123456789abcdef"
HexKey == Digits16 \o Digits16

Plaintexts == {<<>>, <<65>>, HelloWorld, Digits16, HexKey \o <<233>>}

CipherKeys == {HexKey, Digits16, HelloWorld}

Modes == {"ecb", "cfb", "cbc"}

\* Optional[str]: <<>> is None, <<s>> is the string s
IvChoices == {<<>>, <<Digits16>>}

Ciphertexts == {HexKey, <<>>}

Encrypt ==
    \E plaintext \in Plaintexts, key \in CipherKeys, mode \in Modes, iv \in IvChoices :
        /\ op = "none"
        /\ Called("encrypt",
                  [plaintext |-> plaintext, key |-> key, mode |-> mode, iv |-> iv],
                  encrypt(plaintext, key, mode, iv))
        /\ UNCHANGED <<gen, yielded>>

\* decrypt with the key and mode of the encrypt call before it, on the
\* ciphertext and IV that call returned or on a ciphertext held from elsewhere
Decrypt ==
    /\ op = "encrypt"
    /\ \E ciphertext \in Ciphertexts \cup (IF ret.ok THEN {ret.val[1]} ELSE {}),
          iv \in IvChoices \cup (IF ret.ok THEN {ret.val[2]} ELSE {}) :
           Called("decrypt",
                  [ciphertext |-> ciphertext, key |-> arg.key, mode |-> arg.mode,
                   iv |-> iv],
                  decrypt(ciphertext, arg.key, arg.mode, iv))
    /\ UNCHANGED <<gen, yielded>>

CipherNext ==
    \/ Encrypt
    \/ Decrypt

CipherSpec == Init /\ [][CipherNext]_vars

----------------------------------------------------------------------------
(* Properties of the public API, normalization and bit conversion *)

\* C1: for a 16-byte key and mode ecb or cfb, encrypt returns
\* (cipher_hex, iv_used), and decrypt of them with the same key and mode
\* returns the plaintext.
EncryptDecryptRoundTrip ==
    /\ (/\ op = "encrypt"
        /\ normalize_aes_key(arg.key).ok
        /\ arg.mode \in {"ecb", "cfb"})
           => ret.ok
    /\ (/\ op = "decrypt"
        /\ prev.op = "encrypt"
        /\ prev.ret.ok
        /\ arg.ciphertext = prev.ret.val[1]
        /\ arg.iv = prev.ret.val[2])
           => ret = Ok(prev.arg.plaintext)

IsHexString(s) == \A i \in 1..Len(s) : IsHexDigit(s[i])

\* C4: normalize_aes_key returns 16 bytes exactly for the 32-character hex
\* strings and the 16-character strings, and raises ValueError for all others.
KeyAcceptanceRule ==
    op = "normalize_aes_key" =>
        /\ ret.ok <=> \/ Len(arg) = KeyHexChars /\ IsHexString(arg)
                      \/ Len(arg) = KeyBytes
        /\ ret.ok => Len(ret.val) = KeyBytes
        /\ ~ret.ok => IsValueError(ret.exc)

\* C5: on the same string normalize_iv (size 16) and normalize_aes_key both
\* raise or both return the same 16 bytes; a successful normalize_iv(s, size)
\* returns exactly size bytes.
IvSameRuleAsKey ==
    /\ (op = "normalize_iv" /\ prev.op = "normalize_aes_key")
           => /\ arg.iv_str = prev.arg
              /\ ret.ok = prev.ret.ok
              /\ ret.ok => ret.val = prev.ret.val /\ Len(ret.val) = KeyBytes
              /\ ~ret.ok => IsValueError(ret.exc) /\ IsValueError(prev.ret.exc)
    /\ (op = "normalize_iv" /\ ret.ok) => Len(ret.val) = arg.size

\* a string with a leading space that both accept as 16 bytes of text
IvSameRuleAsKeyWitness ==
    /\ op = "normalize_iv"
    /\ prev.op = "normalize_aes_key"
    /\ arg.iv_str = prev.arg
    /\ Len(prev.arg) = KeyBytes
    /\ Head(prev.arg) = 32
    /\ ret.ok
    /\ ret = prev.ret

\* the byte whose bits, most significant first, are b[from + 1 .. from + 8]
MsbFirstValue(b, from) ==
    128 * b[from + 1] + 64 * b[from + 2] + 32 * b[from + 3] + 16 * b[from + 4]
        + 8 * b[from + 5] + 4 * b[from + 6] + 2 * b[from + 7] + b[from + 8]

\* C10: bytes_to_bits(d) has 8*len(d) values in {0,1}, most significant bit
\* of each byte first; bits_to_bytes of it is d; bits_to_bytes raises on a
\* bit list whose length is not a multiple of 8.
BitsRoundTrip ==
    /\ op = "bytes_to_bits"
           => /\ ret.ok
              /\ Len(ret.val) = 8 * Len(arg)
              /\ \A i \in 1..Len(ret.val) : ret.val[i] \in {0, 1}
              /\ \A k \in 1..Len(arg) : MsbFirstValue(ret.val, 8 * (k - 1)) = arg[k]
    /\ (op = "bits_to_bytes" /\ prev.op = "bytes_to_bits")
           => ret = Ok(prev.arg)
    /\ (op = "bits_to_bytes" /\ Len(arg) % 8 # 0)
           => ~ret.ok /\ ret.exc = "ValueError"

BitsRoundTripWitness ==
    /\ op = "bits_to_bytes"
    /\ prev.op = "bytes_to_bits"
    /\ prev.arg = <<1, 170>>
    /\ arg = <<0, 0, 0, 0, 0, 0, 0, 1, 1, 0, 1, 0, 1, 0, 1, 0>>
    /\ ret = Ok(<<1, 170>>)

====
